---------------------------- MODULE Spec2Model ----------------------------
(***************************************************************************)
(* A model of Pandoc.py, the Sublime Text plugin that ranks the configured *)
(* pandoc transformations against the active view, lets the user pick one  *)
(* from a quick panel and pipes the buffer through the pandoc executable.  *)
(*                                                                         *)
(* Command-line tokens, format names, paths and buffer texts are sequences *)
(* of one-character strings; the bytes exchanged with the converter are    *)
(* sequences of integers.  A Python value that may be None is a sequence   *)
(* of length at most one: None is << >> and a value v is << v >>.          *)
(***************************************************************************)
EXTENDS Integers, Sequences, FiniteSets, TLC

VARIABLES
    settings,      \* the merged settings the plugin reads through _s(key)
    views,         \* the window's views: [contents, syntax]
    active,        \* index in views of window.active_view(); 0 when there is none
    score,         \* view.score_selector(0, .) of the active view
    options,       \* PromptPandocCommand.options
    quickPanel,    \* the pending window.show_quick_panel request
    outcome,       \* how the last command or callback ended
    errorMessage,  \* the sublime.error_message of the last command or callback
    popen,         \* the subprocess.Popen of the last command or callback
    viewer,        \* the file handed to the platform's opener
    applied,       \* the transformation handed to the pandoc command
    a_self,        \* Args under test: the receiver
    a_params,      \* Args under test: short, long and values of the call
    a_get,         \* Args under test: the value get returned
    a_once,        \* Args under test: remove's result
    a_twice,       \* Args under test: remove's result on its own result
    a_built        \* Args under test: the executor's argument steps

editorVars == <<settings, views, active, score, options, quickPanel, outcome,
                errorMessage, popen, viewer, applied>>
argsVars == <<a_self, a_params, a_get, a_once, a_twice, a_built>>
vars == <<settings, views, active, score, options, quickPanel, outcome,
          errorMessage, popen, viewer, applied,
          a_self, a_params, a_get, a_once, a_twice, a_built>>

-----------------------------------------------------------------------------
(* Bounds of the model. *)

\* the largest value score_selector returns
MaxScore == 2
\* the most views the window holds
MaxViews == 2
\* the callback is called with an index in -(MaxIndex + 1) .. MaxIndex
MaxIndex == 2
\* the longest argument list under test
MaxLen == 3

-----------------------------------------------------------------------------
(* Python's None and the values that may be None. *)

None == << >>
Some(v) == << v >>

-----------------------------------------------------------------------------
(* Tokens. *)

T_t == <<"-", "t">>
T_w == <<"-", "w">>
T_o == <<"-", "o">>
T_f == <<"-", "f">>
T_tx == <<"-", "t", "x">>
W_pdf == <<"p", "d", "f">>
W_odt == <<"o", "d", "t">>
W_html == <<"h", "t", "m", "l">>
W_md == <<"m", "d">>
W_x == <<"x">>
K_t == <<"t">>
K_w == <<"w">>
K_o == <<"o">>
K_to == <<"t", "o">>
K_write == <<"w", "r", "i", "t", "e">>
K_output == <<"o", "u", "t", "p", "u", "t">>
L_to_pdf == <<"-", "-">> \o K_to \o <<"=">> \o W_pdf
L_write_pdf == <<"-", "-">> \o K_write \o <<"=">> \o W_pdf
L_output_x == <<"-", "-">> \o K_output \o <<"=">> \o W_x
L_to_ == <<"-", "-">> \o K_to \o <<"=">>

-----------------------------------------------------------------------------
(* class Args(list) *)

\* re.search('^-(' + '|'.join(short) + ')$', arg)
ShortMatch(short, arg) ==
    \E i \in 1..Len(short) : arg = <<"-">> \o short[i]

\* the keys k for which '^--(k)=(.+)$' matches arg
LongKeys(long, arg) ==
    {i \in 1..Len(long) :
        /\ Len(arg) >= Len(long[i]) + 4
        /\ SubSeq(arg, 1, 2) = <<"-", "-">>
        /\ SubSeq(arg, 3, 2 + Len(long[i])) = long[i]
        /\ arg[3 + Len(long[i])] = "="}

\* re.search('^--(' + '|'.join(long) + ')=(.+)$', arg)
LongMatch(long, arg) == LongKeys(long, arg) # {}

\* match.group(2)
LongValue(long, arg) ==
    LET i == CHOOSE j \in LongKeys(long, arg) :
                 \A k \in LongKeys(long, arg) : j <= k
    IN SubSeq(arg, Len(long[i]) + 4, Len(arg))

RECURSIVE GetFrom(_, _, _, _, _)
\* the loop of get from its i-th argument on, value being the pending flag
GetFrom(self, i, value, short, long) ==
    IF i > Len(self) THEN None
    ELSE LET arg == self[i] IN
         IF short # None /\ value THEN Some(arg)
         ELSE IF short # None /\ ShortMatch(short[1], arg)
              THEN GetFrom(self, i + 1, TRUE, short, long)
         ELSE IF long # None /\ LongMatch(long[1], arg)
              THEN Some(LongValue(long[1], arg))
         ELSE GetFrom(self, i + 1, value, short, long)

Args_get(self, short, long) == GetFrom(self, 1, FALSE, short, long)

RECURSIVE RemoveFrom(_, _, _, _, _, _, _)
\* the loop of remove from its i-th argument on, ret being built
RemoveFrom(self, i, value, ret, short, long, values) ==
    IF i > Len(self) THEN ret
    ELSE LET arg == self[i] IN
         IF short # None /\ value
         THEN RemoveFrom(self, i + 1, FALSE,
                  IF values # None /\ ~(\E j \in 1..Len(values[1]) : values[1][j] = arg)
                  THEN Append(ret, arg) ELSE ret,
                  short, long, values)
         ELSE IF short # None /\ ShortMatch(short[1], arg)
              THEN RemoveFrom(self, i + 1, TRUE, ret, short, long, values)
         ELSE IF long # None /\ LongMatch(long[1], arg)
              THEN RemoveFrom(self, i + 1, value, ret, short, long, values)
         ELSE RemoveFrom(self, i + 1, value, Append(ret, arg), short, long, values)

Args_remove(self, short, long, values) ==
    RemoveFrom(self, 1, FALSE, << >>, short, long, values)

-----------------------------------------------------------------------------
(* PandocCommand.run: the argument list, from the transformation's         *)
(* pandoc-arguments to what is appended to the command.                    *)

OFormatShort == <<K_t, K_w>>
OFormatLong == <<K_to, K_write>>
PdfValues == <<W_pdf>>
OutputShort == <<K_o>>
OutputLong == <<K_output>>

\* oformat = args.get(short=['t', 'w'], long=['to', 'write'])
OFormat(args) == Args_get(args, Some(OFormatShort), Some(OFormatLong))

\* if oformat == 'pdf': args = args.remove(..., values=['pdf'])
PdfStep(args) ==
    IF OFormat(args) = Some(W_pdf)
    THEN Args_remove(args, Some(OFormatShort), Some(OFormatLong), Some(PdfValues))
    ELSE args

\* oformat is not None and oformat in _s('pandoc-format-file')
IsFileFormat(oformat, formatFile) ==
    /\ oformat # None
    /\ \E i \in 1..Len(formatFile) : formatFile[i] = oformat[1]

\* TempPath without the dot before the format name
TempPathNoDot(tmp, oformat) == tmp \o oformat

\* output_path = tempfile.NamedTemporaryFile().name; output_path += "." + oformat
TempPath(tmp, oformat) == tmp \o <<".">> \o oformat

\* args.get(short=['o'], long=['output'])
OutputPath(args) == Args_get(args, Some(OutputShort), Some(OutputLong))

\* the argument steps of run: the output format, the list after the pdf step,
\* the list given to cmd.extend and the output path (None when not a file format)
BuildArgs(raw, formatFile, tmp) ==
    LET oformat == OFormat(raw)
        afterPdf == PdfStep(raw)
        isFile == IsFileFormat(oformat, formatFile)
        explicit == OutputPath(afterPdf)
        synthesized == isFile /\ explicit = None
        path == IF ~isFile THEN None
                ELSE IF synthesized THEN Some(TempPath(tmp, oformat[1]))
                ELSE explicit
    IN [oformat |-> oformat,
        afterPdf |-> afterPdf,
        args |-> IF synthesized THEN afterPdf \o <<T_o, path[1]>> ELSE afterPdf,
        output_path |-> path]

-----------------------------------------------------------------------------
(* The environment of one pandoc run. *)

\* names tempfile.NamedTemporaryFile() may return
TempNames == {<<"/", "a">>, <<"/", "b">>}

\* the lists pandoc-format-file may hold
FormatFiles == {<<W_pdf, W_odt>>, <<W_odt>>}

-----------------------------------------------------------------------------
(* Args on its own: every list of at most MaxLen tokens of ArgTokens.      *)

ArgTokens == {T_t, T_o, T_tx, W_pdf, W_odt, L_to_pdf, L_output_x, L_to_}

ArgLists == UNION {[1..n -> ArgTokens] : n \in 0..MaxLen}

ShortChoices == {None, Some(OFormatShort), Some(OutputShort)}
LongChoices == {None, Some(OFormatLong), Some(OutputLong)}
ValuesChoices == {None, Some(PdfValues), Some(<<W_odt, T_t>>)}

ArgsIdle ==
    /\ a_params = None
    /\ a_get = None
    /\ a_once = None
    /\ a_twice = None
    /\ a_built = None

\* value = args.get(short, long)
ArgsGet ==
    /\ a_params = None
    /\ a_built = None
    /\ \E short \in ShortChoices, long \in LongChoices :
          /\ a_params' = Some([short |-> short, long |-> long, values |-> None])
          /\ a_get' = Some(Args_get(a_self, short, long))
    /\ UNCHANGED <<a_self, a_once, a_twice, a_built>>
    /\ UNCHANGED editorVars

\* once = args.remove(short, long, values)
ArgsRemove ==
    /\ a_params = None
    /\ a_built = None
    /\ \E short \in ShortChoices, long \in LongChoices, values \in ValuesChoices :
          /\ a_params' = Some([short |-> short, long |-> long, values |-> values])
          /\ a_once' = Some(Args_remove(a_self, short, long, values))
    /\ UNCHANGED <<a_self, a_get, a_twice, a_built>>
    /\ UNCHANGED editorVars

\* twice = once.remove(short, long, values)
ArgsRemoveAgain ==
    /\ a_once # None
    /\ a_twice = None
    /\ a_twice' = Some(Args_remove(a_once[1], a_params[1].short,
                                   a_params[1].long, a_params[1].values))
    /\ UNCHANGED <<a_self, a_params, a_get, a_once, a_built>>
    /\ UNCHANGED editorVars

\* the argument steps of PandocCommand.run on Args(a_self)
ArgsBuild ==
    /\ a_params = None
    /\ a_built = None
    /\ \E formatFile \in FormatFiles, tmp \in TempNames :
          a_built' = Some([formatFile |-> formatFile, tmp |-> tmp]
                          @@ BuildArgs(a_self, formatFile, tmp))
    /\ UNCHANGED <<a_self, a_params, a_get, a_once, a_twice>>
    /\ UNCHANGED editorVars

-----------------------------------------------------------------------------
(* Text and bytes: contents.encode('utf-8'), result.decode('utf8').        *)
(* "E9" stands for the one character U+00E9.                               *)

Ord == [c \in {"#", "T", "h", "!", " ", "\n", "E9"} |->
          CASE c = "#" -> 35 [] c = "T" -> 84 [] c = "h" -> 104 [] c = "!" -> 33
            [] c = " " -> 32 [] c = "\n" -> 10 [] c = "E9" -> 233]

Chr(n) == CHOOSE c \in DOMAIN Ord : Ord[c] = n

RECURSIVE Encode(_)
\* str.encode('utf-8'): one byte below U+0080, two bytes below U+0800
Encode(text) ==
    IF text = << >> THEN << >>
    ELSE LET n == Ord[Head(text)] IN
         (IF n < 128 THEN <<n>> ELSE <<192 + (n \div 64), 128 + (n % 64)>>)
         \o Encode(Tail(text))

RECURSIVE DecodeFrom(_, _, _)
\* bytes.decode('utf-8') from the i-th byte on; None is UnicodeDecodeError
DecodeFrom(bytes, i, text) ==
    IF i > Len(bytes) THEN Some(text)
    ELSE IF bytes[i] < 128
         THEN DecodeFrom(bytes, i + 1, Append(text, Chr(bytes[i])))
    ELSE IF /\ bytes[i] >= 194 /\ bytes[i] < 224 /\ i < Len(bytes)
            /\ bytes[i + 1] >= 128 /\ bytes[i + 1] < 192
         THEN DecodeFrom(bytes, i + 2,
                  Append(text, Chr((bytes[i] - 192) * 64 + (bytes[i + 1] - 128))))
    ELSE None

Decode(bytes) == DecodeFrom(bytes, 1, << >>)

IsSpace(c) == c \in {" ", "\n"}

RECURSIVE Strip(_)
\* str.strip()
Strip(text) ==
    IF text = << >> THEN text
    ELSE IF IsSpace(Head(text)) THEN Strip(Tail(text))
    ELSE IF IsSpace(text[Len(text)]) THEN Strip(SubSeq(text, 1, Len(text) - 1))
    ELSE text

RECURSIVE Join(_, _)
\* sep.join(parts)
Join(sep, parts) ==
    IF parts = << >> THEN << >>
    ELSE IF Len(parts) = 1 THEN parts[1]
    ELSE parts[1] \o sep \o Join(sep, Tail(parts))

-----------------------------------------------------------------------------
(* The settings and the documents. *)

Sel_md == "text.html.markdown"
Sel_html == "text.html"
Selectors == {Sel_md, Sel_html}

\* the functions view.score_selector(0, .) may be
ScoreFns == [Selectors -> 0..MaxScore]

NoScore == [s \in Selectors |-> 0]

Doc == <<"#", "T">>
PlainText == "Plain text"

\* what the converter may write to its output and to its diagnostic stream
Results == {<< >>, Encode(<<"h", "E9">>)}
Errors == {<< >>, Encode(<<"!", "E9", "\n">>)}

PathBinary == <<"/", "p">>

\* the kinds of scope a transformation may have
ScopeMd == <<[selector |-> Sel_md, iformat |-> W_md]>>
ScopeHtml == <<[selector |-> Sel_html, iformat |-> W_html]>>
ScopeBoth == <<[selector |-> Sel_md, iformat |-> W_md],
               [selector |-> Sel_html, iformat |-> W_html]>>
ScopeNone == << >>

\* the settings of the editor model: A writes HTML to a new buffer, B writes a
\* pdf file and replaces the buffer with what the converter prints, D has no scope
Settings1 ==
    [transformations |-> <<
        [label |-> "A", scope |-> ScopeMd,
         pandoc_arguments |-> <<T_t, W_html>>,
         new_buffer |-> TRUE, syntax_file |-> "HTML"],
        [label |-> "B", scope |-> ScopeBoth,
         pandoc_arguments |-> <<T_t, W_pdf>>,
         new_buffer |-> FALSE, syntax_file |-> "Markdown"],
        [label |-> "D", scope |-> ScopeNone,
         pandoc_arguments |-> << >>,
         new_buffer |-> FALSE, syntax_file |-> "HTML"]>>,
     pandoc_format_file |-> <<W_pdf, W_odt>>,
     pandoc_path |-> None]

\* the mappings the ranking is tested on: A, B and C in this order, each with
\* one of the scopes
RankSettings ==
    {[transformations |-> <<
        [label |-> "A", scope |-> a, pandoc_arguments |-> << >>,
         new_buffer |-> FALSE, syntax_file |-> "HTML"],
        [label |-> "B", scope |-> b, pandoc_arguments |-> << >>,
         new_buffer |-> FALSE, syntax_file |-> "HTML"],
        [label |-> "C", scope |-> c, pandoc_arguments |-> << >>,
         new_buffer |-> FALSE, syntax_file |-> "HTML"]>>,
      pandoc_format_file |-> << >>,
      pandoc_path |-> None] :
        a \in {ScopeMd, ScopeBoth}, b \in {ScopeMd, ScopeHtml, ScopeNone},
        c \in {ScopeHtml, ScopeBoth}}

-----------------------------------------------------------------------------
(* PromptPandocCommand.transformations: the ranking.  A dict is the        *)
(* sequence of its items in insertion order.                               *)

\* index of label among the keys of ranked, 0 when it is not a key
KeyIndex(ranked, label) ==
    IF \E i \in 1..Len(ranked) : ranked[i].label = label
    THEN CHOOSE i \in 1..Len(ranked) : ranked[i].label = label
    ELSE 0

\* if label not in ranked or ranked[label] < score: ranked[label] = score
RankUpdate(ranked, label, sc) ==
    LET k == KeyIndex(ranked, label) IN
    IF k = 0 THEN Append(ranked, [label |-> label, score |-> sc])
    ELSE IF ranked[k].score < sc THEN [ranked EXCEPT ![k].score = sc]
    ELSE ranked

RECURSIVE RankScopes(_, _, _, _, _)
\* for scope in settings['scope'].keys(), from the j-th key on
RankScopes(ranked, label, scope, j, sc) ==
    IF j > Len(scope) THEN ranked
    ELSE IF sc[scope[j].selector] = 0
         THEN RankScopes(ranked, label, scope, j + 1, sc)
    ELSE RankScopes(RankUpdate(ranked, label, sc[scope[j].selector]),
                    label, scope, j + 1, sc)

RECURSIVE RankFrom(_, _, _, _)
\* for label, settings in _s('transformations').items(), from the i-th item on
RankFrom(ranked, transformations, i, sc) ==
    IF i > Len(transformations) THEN ranked
    ELSE RankFrom(RankScopes(ranked, transformations[i].label,
                             transformations[i].scope, 1, sc),
                  transformations, i + 1, sc)

Ranked(transformations, sc) == RankFrom(<< >>, transformations, 1, sc)

\* SortInsert putting the item before its equals: a sort that is not stable
SortInsertBefore(sorted, item) ==
    LET n == Cardinality({i \in 1..Len(sorted) : sorted[i].score < item.score})
    IN SubSeq(sorted, 1, n) \o <<item>> \o SubSeq(sorted, n + 1, Len(sorted))

\* item put into an ascending list behind every item that is not greater
SortInsert(sorted, item) ==
    LET n == Cardinality({i \in 1..Len(sorted) : sorted[i].score <= item.score})
    IN SubSeq(sorted, 1, n) \o <<item>> \o SubSeq(sorted, n + 1, Len(sorted))

RECURSIVE SortFrom(_, _, _)
\* sorted(ranked.items(), key=lambda t: t[1]): ascending and stable
SortFrom(sorted, items, i) ==
    IF i > Len(items) THEN sorted
    ELSE SortFrom(SortInsert(sorted, items[i]), items, i + 1)

Sorted(items) == SortFrom(<< >>, items, 1)

\* list(OrderedDict(...).keys())
Keys(items) == [i \in 1..Len(items) |-> items[i].label]

\* list.reverse()
Reverse(list) == [i \in 1..Len(list) |-> list[Len(list) + 1 - i]]

\* self.options = list(OrderedDict(sorted(...)).keys()); self.options.reverse()
RankedOptions(ranked) == Reverse(Keys(Sorted(ranked)))

-----------------------------------------------------------------------------
(* PandocCommand.run *)

\* _find_binary(name, default): the path, or None after an error message
FindBinary(default, found) ==
    IF ~found THEN None
    ELSE IF default # None THEN default
    ELSE Some(PathBinary)

\* the text of sublime.error_message when _find_binary returns None
NotFoundText(default) ==
    IF default # None
    THEN [title |-> "configured path for pandoc not found.", path |-> default[1]]
    ELSE [title |-> "Could not find pandoc executable on PATH."]

RECURSIVE IFormatFrom(_, _, _, _, _)
\* the loop over transformation['scope'].items() from the j-th item on;
\* iformat is None while the local variable is unbound
IFormatFrom(scope, j, best, iformat, sc) ==
    IF j > Len(scope) THEN iformat
    ELSE IF sc[scope[j].selector] <= best
         THEN IFormatFrom(scope, j + 1, best, iformat, sc)
    ELSE IFormatFrom(scope, j + 1, sc[scope[j].selector],
                     Some(scope[j].iformat), sc)

RECURSIVE IFormatFromLast(_, _, _, _, _)
\* IFormatFrom skipping only a smaller score: the last of the best entries wins
IFormatFromLast(scope, j, best, iformat, sc) ==
    IF j > Len(scope) THEN iformat
    ELSE IF sc[scope[j].selector] < best \/ sc[scope[j].selector] = 0
         THEN IFormatFromLast(scope, j + 1, best, iformat, sc)
    ELSE IFormatFromLast(scope, j + 1, sc[scope[j].selector],
                         Some(scope[j].iformat), sc)

IFormatLast(scope, sc) == IFormatFromLast(scope, 1, 0, None, sc)

IFormat(scope, sc) == IFormatFrom(scope, 1, 0, None, sc)

\* cmd = [pandoc]; cmd.extend(['-f', iformat]); cmd.extend(args)
Command(pandoc, iformat, args) == <<pandoc, T_f, iformat>> \o args

\* ErrorText showing the configured arguments only, not the whole command
ErrorTextArguments(cmd, text) ==
    [title |-> "Error when running:", cmdline |-> Join(<<" ">>, SubSeq(cmd, 4, Len(cmd))),
     text |-> Strip(text)]

\* the text of sublime.error_message after a run with diagnostic output
ErrorText(cmd, text) ==
    [title |-> "Error when running:", cmdline |-> Join(<<" ">>, cmd), text |-> Strip(text)]

\* w.new_file(); view = w.active_view()
NewFile(vs) == Append(vs, [contents |-> << >>, syntax |-> PlainText])

\* view.replace(edit, region, text); view.set_syntax_file(syntax_file)
WriteView(vs, i, text, syntax_file) ==
    [vs EXCEPT ![i] = [contents |-> text, syntax |-> syntax_file]]

\* the view the result is written to: a new one when new-buffer is set
TargetViews(vs, new_buffer) == IF new_buffer THEN NewFile(vs) ELSE vs
\* TargetIndex writing to the view the command runs on, whatever new-buffer says
TargetIndexOrigin(vs, act, new_buffer) == act

TargetIndex(vs, act, new_buffer) == IF new_buffer THEN Len(vs) + 1 ELSE act

\* the run from the Popen on.  env: found (the executable exists), tmp (the
\* temporary file's name), result and error (what communicate returns), opener
\* (how the platform's opener ends)
Converted(t, env, cmd, built) ==
    LET process == [cmd |-> cmd, stdin |-> Encode(views[active].contents),
                    stdout |-> env.result, stderr |-> env.error]
        opened == IF IsFileFormat(built.oformat, settings.pandoc_format_file)
                  THEN Some([path |-> built.output_path[1], opener |-> env.opener])
                  ELSE None
        ran == [outcome |-> "Succeeded", errorMessage |-> None,
                popen |-> Some(process), viewer |-> None,
                views |-> views, active |-> active]
    IN
    IF env.error # << >>
    THEN IF Decode(env.error) = None
         THEN [ran EXCEPT !.outcome = "UnicodeDecodeError"]
         ELSE [ran EXCEPT !.outcome = "ConversionError",
                          !.errorMessage = Some(ErrorText(cmd, Decode(env.error)[1]))]
    ELSE IF env.result = << >>
    THEN [ran EXCEPT !.viewer = opened]
    ELSE IF Decode(env.result) = None
    THEN [ran EXCEPT !.outcome = "UnicodeDecodeError",
                     !.viewer = opened,
                     !.views = TargetViews(views, t.new_buffer),
                     !.active = TargetIndex(views, active, t.new_buffer)]
    ELSE [ran EXCEPT !.viewer = opened,
                     !.views = WriteView(TargetViews(views, t.new_buffer),
                                         TargetIndex(views, active, t.new_buffer),
                                         Decode(env.result)[1], t.syntax_file),
                     !.active = TargetIndex(views, active, t.new_buffer)]

\* the run once the executable and the input format are looked up
Resolved(t, env, pandoc, iformat) ==
    LET quiet == [outcome |-> "", errorMessage |-> None, popen |-> None,
                  viewer |-> None, views |-> views, active |-> active]
    IN
    IF pandoc = None
    THEN [quiet EXCEPT !.outcome = "ExecutableNotFound",
                       !.errorMessage = Some(NotFoundText(settings.pandoc_path))]
    ELSE IF iformat = None
    THEN [quiet EXCEPT !.outcome = "UnboundLocalError"]
    ELSE Converted(t, env,
             Command(pandoc[1], iformat[1],
                     BuildArgs(t.pandoc_arguments, settings.pandoc_format_file,
                               env.tmp).args),
             BuildArgs(t.pandoc_arguments, settings.pandoc_format_file, env.tmp))

\* what one run of the pandoc command on the active view leaves behind
Execute(t, env) ==
    Resolved(t, env, FindBinary(settings.pandoc_path, env.found),
             IFormat(t.scope, score))

\* the runs of the converter the editor model draws from
Envs == {[found |-> TRUE, tmp |-> <<"/", "a">>, result |-> r, error |-> e,
          opener |-> IF r = << >> THEN "opened" ELSE "failed"] :
            r \in Results, e \in Errors}
        \cup {[found |-> FALSE, tmp |-> <<"/", "a">>, result |-> << >>,
               error |-> << >>, opener |-> "opened"]}

\* the state after self.view.run_command('pandoc', {'transformation': t})
RunPandoc(t, env) ==
    \E r \in {Execute(t, env)} :
    /\ Len(r.views) <= MaxViews
    /\ applied' = Some(t)
    /\ outcome' = r.outcome
    /\ errorMessage' = r.errorMessage
    /\ popen' = r.popen
    /\ viewer' = r.viewer
    /\ views' = r.views
    /\ active' = r.active
    /\ score' \in IF r.views = views THEN {score} ELSE ScoreFns

-----------------------------------------------------------------------------
(* PromptPandocCommand *)

\* the text of sublime.error_message when nothing is ranked
NoMatchText(syntax) ==
    [title |-> "No transformations configured for the syntax ", syntax |-> syntax]

\* the request window.show_quick_panel(items, self.transform) makes
PanelRequest(items) == Some([items |-> items, on_select |-> "transform"])

\* PromptPandocCommand.run, transformations() included
Run ==
    /\ applied' = None
    /\ popen' = None
    /\ viewer' = None
    /\ UNCHANGED <<settings, views, active, score>>
    /\ IF active = 0
       THEN /\ outcome' = "NoActiveView"
            /\ errorMessage' = None
            /\ UNCHANGED <<options, quickPanel>>
       ELSE LET ranked == Ranked(settings.transformations, score) IN
            IF Len(ranked) = 0
            THEN /\ outcome' = "NoMatchError"
                 /\ errorMessage' = Some(NoMatchText(views[active].syntax))
                 /\ quickPanel' = PanelRequest(None)
                 /\ UNCHANGED options
            ELSE /\ outcome' = "PanelShown"
                 /\ errorMessage' = None
                 /\ options' = RankedOptions(ranked)
                 /\ quickPanel' = PanelRequest(Some(RankedOptions(ranked)))
    /\ UNCHANGED argsVars

\* the position self.options[i] reads, None when it raises IndexError
PyIndex(list, i) ==
    IF i >= 0 /\ i < Len(list) THEN Some(i + 1)
    ELSE IF i < 0 /\ i + Len(list) >= 0 THEN Some(i + Len(list) + 1)
    ELSE None

\* _s('transformations')[label]
Lookup(transformations, label) ==
    transformations[CHOOSE k \in 1..Len(transformations) :
                        transformations[k].label = label]

\* the indices the panel's callback is called with
Indices == (0 - (MaxIndex + 1))..MaxIndex

\* nothing but the outcome is left behind
Quiet(result) ==
    /\ outcome' = result
    /\ applied' = None
    /\ errorMessage' = None
    /\ popen' = None
    /\ viewer' = None

\* PromptPandocCommand.transform(i), the pandoc command it runs included
Transform(i) ==
    /\ quickPanel # None
    /\ quickPanel[1].items # None
    /\ quickPanel' = None
    /\ UNCHANGED <<settings, options>>
    /\ IF i = -1 THEN Quiet("Cancelled") /\ UNCHANGED <<views, active, score>>
       ELSE IF PyIndex(options, i) = None
       THEN Quiet("IndexError") /\ UNCHANGED <<views, active, score>>
       ELSE IF active = 0
       THEN Quiet("AttributeError") /\ UNCHANGED <<views, active, score>>
       ELSE \E env \in Envs :
               RunPandoc(Lookup(settings.transformations,
                                options[PyIndex(options, i)[1]]), env)
    /\ UNCHANGED argsVars

\* the pandoc command run on the active view with a configured transformation
ApplyTransformation(t) ==
    /\ active # 0
    /\ \E env \in Envs : RunPandoc(t, env)
    /\ UNCHANGED <<settings, options, quickPanel>>
    /\ UNCHANGED argsVars

\* the user dismisses what is shown and activates another view, or none
Focus(i) ==
    /\ i # active
    /\ active' = i
    /\ score' \in IF i = 0 THEN {NoScore} ELSE ScoreFns
    /\ Quiet("Idle")
    /\ UNCHANGED <<settings, views, options, quickPanel>>
    /\ UNCHANGED argsVars

-----------------------------------------------------------------------------
(* The plugin in the editor. *)

Init ==
    /\ settings = Settings1
    /\ views = <<[contents |-> Doc, syntax |-> "Markdown"]>>
    /\ active = 1
    /\ score \in ScoreFns
    /\ options = << >>
    /\ quickPanel = None
    /\ outcome = "Idle"
    /\ errorMessage = None
    /\ popen = None
    /\ viewer = None
    /\ applied = None
    /\ a_self = << >>
    /\ ArgsIdle

Next ==
    \/ Run
    \/ \E i \in Indices : Transform(i)
    \/ \E k \in 1..Len(settings.transformations) :
          ApplyTransformation(settings.transformations[k])
    \/ \E i \in 0..Len(views) : Focus(i)

Spec == Init /\ [][Next]_vars

-----------------------------------------------------------------------------
(* Args on its own. *)

InitArgs ==
    /\ settings = Settings1
    /\ views = <<[contents |-> Doc, syntax |-> "Markdown"]>>
    /\ active = 1
    /\ score = NoScore
    /\ options = << >>
    /\ quickPanel = None
    /\ outcome = "Idle"
    /\ errorMessage = None
    /\ popen = None
    /\ viewer = None
    /\ applied = None
    /\ a_self \in ArgLists
    /\ ArgsIdle

NextArgs ==
    \/ ArgsGet
    \/ ArgsRemove
    \/ ArgsRemoveAgain
    \/ ArgsBuild

SpecArgs == InitArgs /\ [][NextArgs]_vars

-----------------------------------------------------------------------------
(* The ranking on its own: every mapping of RankSettings, every score.     *)

InitRank ==
    /\ settings \in RankSettings
    /\ views = <<[contents |-> Doc, syntax |-> "Markdown"]>>
    /\ active = 1
    /\ score \in ScoreFns
    /\ options = << >>
    /\ quickPanel = None
    /\ outcome = "Idle"
    /\ errorMessage = None
    /\ popen = None
    /\ viewer = None
    /\ applied = None
    /\ a_self = << >>
    /\ ArgsIdle

NextRank ==
    \/ Run
    \/ \E i \in 0..Len(views) : Focus(i)

SpecRank == InitRank /\ [][NextRank]_vars

-----------------------------------------------------------------------------
(* What the properties below are stated with. *)

Elements(list) == {list[i] : i \in 1..Len(list)}

Max(S) == CHOOSE n \in S : \A m \in S : m <= n
Min(S) == CHOOSE n \in S : \A m \in S : n <= m

\* the greatest score of a transformation's selectors, 0 when it has none
BestScore(t, sc) == Max({0} \cup {sc[t.scope[j].selector] : j \in 1..Len(t.scope)})

\* the input format of the first entry of the scope that scores BestScore
FirstBest(t, sc) ==
    t.scope[Min({j \in 1..Len(t.scope) :
                    sc[t.scope[j].selector] = BestScore(t, sc)})].iformat

\* where label stands in the mapping
Position(transformations, label) ==
    CHOOSE k \in 1..Len(transformations) : transformations[k].label = label

EndsWith(seq, suffix) ==
    /\ Len(seq) >= Len(suffix)
    /\ SubSeq(seq, Len(seq) - Len(suffix) + 1, Len(seq)) = suffix

\* the list holds an output-format flag with the value pdf
HasPdfFlag(args) ==
    \/ \E i \in 1..(Len(args) - 1) : args[i] \in {T_t, T_w} /\ args[i + 1] = W_pdf
    \/ \E i \in 1..Len(args) : args[i] \in {L_to_pdf, L_write_pdf}

-----------------------------------------------------------------------------
(* The ranking. *)

\* C1: the list the ranking produces holds exactly the labels whose best score
\* is not zero, each once, in non-increasing order of best score, labels of
\* equal best score in the reverse of their order in the mapping.
C1_RankedList ==
    outcome = "PanelShown" =>
        LET ts == settings.transformations
            best(l) == BestScore(ts[Position(ts, l)], score)
        IN /\ quickPanel = PanelRequest(Some(options))
           /\ Elements(options) =
                  {ts[k].label : k \in {k \in 1..Len(ts) : BestScore(ts[k], score) > 0}}
           /\ Len(options) = Cardinality(Elements(options))
           /\ \A i, j \in 1..Len(options) :
                 i < j => /\ best(options[i]) >= best(options[j])
                          /\ best(options[i]) = best(options[j]) =>
                                 Position(ts, options[i]) > Position(ts, options[j])

\* A, B and C defined in this order, A and B of one score and C of a smaller one
C1_Witness ==
    /\ outcome = "PanelShown"
    /\ options = <<"B", "A", "C">>
    /\ BestScore(settings.transformations[1], score)
           = BestScore(settings.transformations[2], score)
    /\ BestScore(settings.transformations[3], score) > 0
    /\ BestScore(settings.transformations[3], score)
           < BestScore(settings.transformations[1], score)

\* C2: a run of the list command that finds nothing ranked shows the message
\* and does nothing else: no quick panel request, no callback handed over, no
\* transformation applied.
C2_NoMatchNoFurtherAction ==
    [][outcome' = "NoMatchError" =>
          /\ errorMessage' # None
          /\ quickPanel' = quickPanel
          /\ applied' = None
          /\ popen' = None
          /\ views' = views]_vars

\* C7: the callback does nothing for -1 and for every index outside the list:
\* no transformation looked up or applied, no buffer changed, no error.
C7_CallbackNoOp ==
    [][\A i \in Indices :
          (Transform(i) /\ (i < 0 \/ i >= Len(options))) =>
              /\ outcome' = "Cancelled"
              /\ applied' = None
              /\ errorMessage' = None
              /\ views' = views]_vars

\* C10: after a run of the list command the list an index is resolved in is
\* the ranking that run computed: the empty one after a run that found nothing.
C10_OptionsAreLastRanking ==
    outcome \in {"PanelShown", "NoMatchError"} =>
        options = RankedOptions(Ranked(settings.transformations, score))

-----------------------------------------------------------------------------
(* The pandoc command. *)

\* C3: a run in which the converter writes diagnostic output ends in the
\* failed state: no view is changed or created, no viewer is opened, and the
\* message shown holds the command line the converter was started with.
C3_ErrorLeavesBuffers ==
    [][(popen' # None /\ popen'[1].stderr # << >>) =>
          /\ outcome' = "ConversionError"
          /\ views' = views
          /\ active' = active
          /\ viewer' = None
          /\ errorMessage' # None
          /\ errorMessage'[1].cmdline = Join(<<" ">>, popen'[1].cmd)]_vars

\* the converter wrote output as well, for a transformation with new-buffer
C3_Witness ==
    /\ outcome = "ConversionError"
    /\ popen # None
    /\ popen[1].stderr # << >>
    /\ popen[1].stdout # << >>
    /\ applied[1].new_buffer
    /\ Len(popen[1].cmd) > 3

\* C4: a run of a transformation with new-buffer in which the converter
\* writes output and no diagnostic output creates exactly one view, whose
\* contents are the decoded output and whose syntax is the transformation's
\* syntax_file, and leaves every other view as it was.
C4_NewBuffer ==
    [][(/\ popen' # None
        /\ applied' # None
        /\ applied'[1].new_buffer
        /\ popen'[1].stdout # << >>
        /\ popen'[1].stderr = << >>) =>
          /\ Len(views') = Len(views) + 1
          /\ SubSeq(views', 1, Len(views)) = views
          /\ Encode(views'[Len(views')].contents) = popen'[1].stdout
          /\ views'[Len(views')].syntax = applied'[1].syntax_file]_vars

\* the HTML of the document is in a second view, the document in the first
C4_Witness ==
    /\ outcome = "Succeeded"
    /\ applied # None
    /\ applied[1].new_buffer
    /\ popen[1].stdout # << >>
    /\ Len(views) = 2
    /\ active = 2
    /\ views[1] = [contents |-> Doc, syntax |-> "Markdown"]
    /\ views[2] = [contents |-> <<"h", "E9">>, syntax |-> "HTML"]

-----------------------------------------------------------------------------
(* The argument list. *)

\* C5: when the output format is pdf, the list given to the converter holds
\* no -t or -w followed by pdf and no --to=pdf or --write=pdf.
C5_NoPdfFlag ==
    (a_built # None /\ a_built[1].oformat = Some(W_pdf)) => ~HasPdfFlag(a_built[1].args)

\* C6: for an output format of pandoc-format-file, the list given to the
\* converter is the list after the pdf step followed by -o and a path ending
\* in "." and the format's name when get finds no output path in it, and that
\* list itself when get finds one; for any other output format, or none, it is
\* that list itself.
C6_OutputPath ==
    a_built # None =>
        LET b == a_built[1]
            isFile == b.oformat # None /\ b.oformat[1] \in Elements(b.formatFile)
            explicit == Args_get(b.afterPdf, Some(<<K_o>>), Some(<<K_output>>))
        IN /\ (isFile /\ explicit = None) =>
                 /\ Len(b.args) = Len(b.afterPdf) + 2
                 /\ SubSeq(b.args, 1, Len(b.afterPdf)) = b.afterPdf
                 /\ b.args[Len(b.args) - 1] = T_o
                 /\ EndsWith(b.args[Len(b.args)], <<".">> \o b.oformat[1])
           /\ (isFile /\ explicit # None) => b.args = b.afterPdf
           /\ ~isFile => b.args = b.afterPdf

\* pdf with its flag removed and the path of a temporary file appended
C6_Witness ==
    /\ a_built # None
    /\ a_self = <<T_tx, T_t, W_pdf>>
    /\ a_built[1].afterPdf = <<T_tx>>
    /\ a_built[1].args = <<T_tx, T_o, <<"/", "a", ".", "p", "d", "f">>>>

\* C8: remove applied to its own result, with the same short, long and values,
\* returns that result.
C8_RemoveIdempotent ==
    a_twice # None => a_twice[1] = a_once[1]
=============================================================================
